---- MODULE Spec2Model ----
(***************************************************************************)
(* Model of the deno host shell: the unified error type of cli/errors.rs   *)
(* (DenoError: kind, Display, apply_source_map, the From conversions) and  *)
(* the startup routine of src/main.rs (panic hook, logger, flags, the      *)
(* compiler isolate and then the main isolate).                            *)
(***************************************************************************)
EXTENDS Naturals, Sequences, FiniteSets, TLC

VARIABLES
  \* ---- src/main.rs : main() ----
  pc,            \* position of main() (the statement about to run)
  args,          \* env::args(), abstracted to what set_flags reads from it
  flags,         \* the parsed flags (NoFlags before set_flags returned)
  hook,          \* TRUE once std::panic::set_hook has run
  logger,        \* number of successful log::set_logger calls
  max_level,     \* log::max_level(), the global level filter of the log crate
  ctx,           \* lifecycle state of each isolate, by role
  pending,       \* work scheduled on the event loop of the running isolate
  executed,      \* the bootstrap scripts execute() was called with, in order
  looped,        \* the roles whose event_loop() was entered, in order
  failed,        \* the role whose execute() returned Err ("none" if none)
  err,           \* the DenoError execute() returned (NoError if none)
  out,           \* lines written to stdout (println!)
  errout,        \* lines written to stderr (eprintln!)
  status,        \* "running", "exit0", "exit1", "exit101" or "abort"
  panicked,      \* TRUE once some step has panicked
  \* ---- cli/errors.rs : one DenoError value and what is done to it ----
  cause,         \* the input the DenoError was built from
  derr0,         \* the DenoError as constructed
  derr,          \* the DenoError after the apply_source_map calls so far
  napplied       \* number of apply_source_map calls so far

mainvars == <<pc, args, flags, hook, logger, max_level, ctx, pending, executed,
              looped, failed, err, out, errout, status, panicked>>
errvars  == <<cause, derr0, derr, napplied>>
vars     == <<mainvars, errvars>>

\* ---------------------------------------------------------------- bounds
MaxPos    == 2   \* generated-code positions are 1..MaxPos
MaxFrames == 1   \* stack frames of a script exception
MaxApply  == 2   \* apply_source_map calls on one error
MaxWork   == 2   \* work items a bootstrap script leaves on the event loop

\* ================================================================
\*                        cli/errors.rs
\* ================================================================

NoError == [tag |-> "None"]
NoCause == [domain |-> "none"]

\* std::io::ErrorKind, the public variants
IoErrorKind ==
  {"NotFound", "PermissionDenied", "ConnectionRefused", "ConnectionReset",
   "ConnectionAborted", "NotConnected", "AddrInUse", "AddrNotAvailable",
   "BrokenPipe", "AlreadyExists", "WouldBlock", "InvalidInput", "InvalidData",
   "TimedOut", "Interrupted", "WriteZero", "Other", "UnexpectedEof"}

\* url::ParseError
UrlParseError ==
  {"EmptyHost", "IdnaError", "InvalidPort", "InvalidIpv4Address",
   "InvalidIpv6Address", "InvalidDomainCharacter", "RelativeUrlWithoutBase",
   "RelativeUrlWithCannotBeABaseBase", "SetHostOnCannotBeABaseUrl", "Overflow"}

\* hyper::Error seen through its four predicates (any combination)
HyperError ==
  [is_parse : BOOLEAN, is_user : BOOLEAN, is_canceled : BOOLEAN,
   is_closed : BOOLEAN]

\* nix::errno::Errno (a sample: the three special-cased ones and two others)
Errno == {"EPERM", "EINVAL", "ENOENT", "EACCES", "EIO"}

\* Errno::desc()
ErrnoDesc(errno) ==
  CASE errno = "EPERM"  -> "Operation not permitted"
    [] errno = "EINVAL" -> "Invalid argument"
    [] errno = "ENOENT" -> "No such file or directory"
    [] errno = "EACCES" -> "Permission denied"
    [] errno = "EIO"    -> "I/O error"

\* nix::Error
UnixError ==
  [variant : {"Sys"}, errno : Errno]
    \cup {[variant |-> v] : v \in {"InvalidPath", "InvalidUtf8",
                                    "UnsupportedOperation"}}

\* format!("{}", e) of a nix::Error
UnixErrorDisplay(e) ==
  CASE e.variant = "Sys"                  -> ErrnoDesc(e.errno)
    [] e.variant = "InvalidPath"          -> "Invalid path"
    [] e.variant = "InvalidUtf8"          -> "Invalid UTF-8 string"
    [] e.variant = "UnsupportedOperation" -> "Unsupported Operation"

Pos    == 1 .. MaxPos
Frames == UNION {[1 .. n -> Pos] : n \in 0 .. MaxFrames}

\* a SourceMapGetter: the original position of a generated one, 0 when the
\* getter has no source map for it
Getters == [Pos -> 0 .. MaxPos]

\* deno::JSError: its message and the positions of its stack frames
JSErrors == [message : {"Uncaught Error"}, frames : Frames]

\* pub fn new(kind, msg)
new(kind, msg) == [tag |-> "Simple", kind |-> kind, msg |-> msg]

\* the ready-made simple errors
bad_resource         == new("BadResource", "bad resource id")
permission_denied    == new("PermissionDenied", "permission denied")
op_not_implemented   == new("OpNotAvailable", "op not implemented")
worker_init_failed   == new("WorkerInitFailed", "worker init failed")
no_buffer_specified  == new("InvalidInput", "no buffer specified")
no_async_support     == new("NoAsyncSupport", "op doesn't support async calls")
no_sync_support      == new("NoSyncSupport", "op doesn't support sync calls")

\* impl From<io::Error>
FromIoError(e) == [tag |-> "IoErr", io |-> e]

\* impl From<url::ParseError>
FromUrlParseError(e) == [tag |-> "UrlErr", url |-> e]

\* impl From<hyper::Error>
FromHyperError(e) == [tag |-> "HyperErr", hyper |-> e]

\* impl From<ResolveAddrError>
FromResolveAddrError(e) ==
  IF e.variant = "Syntax"
  THEN new("InvalidInput", "invalid address syntax")
  ELSE [tag |-> "IoErr", io |-> e.io]

\* faulty variant: the EPERM and ENOENT arms exchanged
FromUnixError_Swapped(e) ==
  CASE e.variant = "Sys" /\ e.errno = "EPERM" ->
         new("NotFound", ErrnoDesc("ENOENT"))
    [] e.variant = "Sys" /\ e.errno = "EINVAL" ->
         new("InvalidInput", ErrnoDesc("EINVAL"))
    [] e.variant = "Sys" /\ e.errno = "ENOENT" ->
         new("PermissionDenied", ErrnoDesc("EPERM"))
    [] e.variant = "Sys" /\ e.errno \notin {"EPERM", "EINVAL", "ENOENT"} ->
         new("UnixError", ErrnoDesc(e.errno))
    [] OTHER -> new("Other", UnixErrorDisplay(e))

\* impl From<UnixError>
FromUnixError(e) ==
  CASE e.variant = "Sys" /\ e.errno = "EPERM" ->
         new("PermissionDenied", ErrnoDesc("EPERM"))
    [] e.variant = "Sys" /\ e.errno = "EINVAL" ->
         new("InvalidInput", ErrnoDesc("EINVAL"))
    [] e.variant = "Sys" /\ e.errno = "ENOENT" ->
         new("NotFound", ErrnoDesc("ENOENT"))
    [] e.variant = "Sys" /\ e.errno \notin {"EPERM", "EINVAL", "ENOENT"} ->
         new("UnixError", ErrnoDesc(e.errno))
    [] OTHER -> new("Other", UnixErrorDisplay(e))

\* impl From<import_map::ImportMapError>
FromImportMapError(e) == [tag |-> "ImportMapErr", msg |-> e.msg]

\* impl From<diagnostics::Diagnostic>
FromDiagnostic(d) == [tag |-> "Diagnostic", items |-> d.items]

\* impl From<JSError>
FromJSError(e) == [tag |-> "JSError", js |-> e]

\* faulty variant: the UnexpectedEof arm is missing
IoKind_NoEof(k) ==
  IF k \in {"NotFound", "PermissionDenied", "ConnectionRefused",
            "ConnectionReset", "ConnectionAborted", "NotConnected", "AddrInUse",
            "AddrNotAvailable", "BrokenPipe", "AlreadyExists", "WouldBlock",
            "InvalidInput", "InvalidData", "TimedOut", "Interrupted",
            "WriteZero", "Other"}
  THEN k ELSE "unreachable"

\* the match on err.kind() inside DenoError::kind; "unreachable" stands for
\* the panic of the unreachable!() arm
IoKind(k) ==
  CASE k = "NotFound"          -> "NotFound"
    [] k = "PermissionDenied"  -> "PermissionDenied"
    [] k = "ConnectionRefused" -> "ConnectionRefused"
    [] k = "ConnectionReset"   -> "ConnectionReset"
    [] k = "ConnectionAborted" -> "ConnectionAborted"
    [] k = "NotConnected"      -> "NotConnected"
    [] k = "AddrInUse"         -> "AddrInUse"
    [] k = "AddrNotAvailable"  -> "AddrNotAvailable"
    [] k = "BrokenPipe"        -> "BrokenPipe"
    [] k = "AlreadyExists"     -> "AlreadyExists"
    [] k = "WouldBlock"        -> "WouldBlock"
    [] k = "InvalidInput"      -> "InvalidInput"
    [] k = "InvalidData"       -> "InvalidData"
    [] k = "TimedOut"          -> "TimedOut"
    [] k = "Interrupted"       -> "Interrupted"
    [] k = "WriteZero"         -> "WriteZero"
    [] k = "Other"             -> "Other"
    [] k = "UnexpectedEof"     -> "UnexpectedEof"
    [] OTHER                   -> "unreachable"

\* msg::ErrorKind: the variants cli/errors.rs names
ErrorKind ==
  IoErrorKind \cup UrlParseError
    \cup {"HttpParse", "HttpUser", "HttpCanceled", "HttpClosed", "HttpOther",
          "ImportMapError", "Diagnostic", "JSError", "UnixError", "BadResource",
          "OpNotAvailable", "WorkerInitFailed", "NoAsyncSupport",
          "NoSyncSupport"}

\* the match on url::ParseError inside DenoError::kind (one-to-one, same names)
UrlKind(r) == r

\* faulty variant: is_canceled tested before is_parse
HyperKind_CanceledFirst(h) ==
  IF h.is_canceled THEN "HttpCanceled"
  ELSE IF h.is_parse THEN "HttpParse"
  ELSE IF h.is_user THEN "HttpUser"
  ELSE IF h.is_closed THEN "HttpClosed"
  ELSE "HttpOther"

\* the if/else chain on hyper::Error inside DenoError::kind
HyperKind(h) ==
  IF h.is_parse THEN "HttpParse"
  ELSE IF h.is_user THEN "HttpUser"
  ELSE IF h.is_canceled THEN "HttpCanceled"
  ELSE IF h.is_closed THEN "HttpClosed"
  ELSE "HttpOther"

\* DenoError::kind
kind(e) ==
  CASE e.tag = "Simple"       -> e.kind
    [] e.tag = "IoErr"        -> IoKind(e.io.kind)
    [] e.tag = "UrlErr"       -> UrlKind(e.url)
    [] e.tag = "HyperErr"     -> HyperKind(e.hyper)
    [] e.tag = "ImportMapErr" -> "ImportMapError"
    [] e.tag = "Diagnostic"   -> "Diagnostic"
    [] e.tag = "JSError"      -> "JSError"

\* source_maps::apply_source_map on a JSError: every frame position the getter
\* knows is rewritten to the original position
MapJSError(js, getter) ==
  [js EXCEPT !.frames =
     [i \in DOMAIN js.frames |->
        IF getter[js.frames[i]] = 0 THEN js.frames[i]
        ELSE getter[js.frames[i]]]]

\* faulty variant: every other variant is rebuilt as a simple error
apply_source_map_Rewrap(e, getter) ==
  IF e.tag = "JSError"
  THEN [tag |-> "JSError", js |-> MapJSError(e.js, getter)]
  ELSE [tag |-> "Simple", kind |-> "Other", msg |-> "source-mapped"]

\* DenoError::apply_source_map
apply_source_map(e, getter) ==
  IF e.tag = "JSError"
  THEN [tag |-> "JSError", js |-> MapJSError(e.js, getter)]
  ELSE e

\* impl fmt::Display for DenoError: the rendered text (its lines) and, for a
\* script exception, the frame positions the stack trace shows
Display(e) ==
  CASE e.tag = "Simple"       -> [text |-> <<e.msg>>, frames |-> <<>>]
    [] e.tag = "IoErr"        -> [text |-> <<e.io.text>>, frames |-> <<>>]
    [] e.tag = "UrlErr"       -> [text |-> <<e.url>>, frames |-> <<>>]
    [] e.tag = "HyperErr"     -> [text |-> <<"hyper error">>, frames |-> <<>>]
    [] e.tag = "ImportMapErr" -> [text |-> <<e.msg>>, frames |-> <<>>]
    [] e.tag = "Diagnostic"   -> [text |-> e.items, frames |-> <<>>]
    [] e.tag = "JSError"      -> [text |-> <<e.js.message>>,
                                  frames |-> e.js.frames]

\* err_check: panics with e.to_string() on Err, returns on Ok
err_check(r) ==
  IF r.tag = "None" THEN [panics |-> FALSE, msg |-> <<>>]
  ELSE [panics |-> TRUE, msg |-> Display(r).text]

\* ---- the inputs of the conversions ----
IoErrors == [kind : IoErrorKind, text : {"os error"}]
ResolveAddrErrors ==
  {[variant |-> "Syntax"]}
    \cup [variant : {"Resolution"},
          io : [kind : {"NotFound", "TimedOut"}, text : {"os error"}]]
ImportMapErrors == {[msg |-> "bad import map"]}
Diagnostics == {[items |-> <<"TS2322">>], [items |-> <<"TS2322", "TS2304">>]}
SimpleErrors ==
  {bad_resource, permission_denied, op_not_implemented, worker_init_failed,
   no_buffer_specified, no_async_support, no_sync_support,
   new("InvalidInput", "bad config")}

\* every DenoError new() or a From conversion yields on those inputs
ConstructibleErrors ==
  SimpleErrors
    \cup {FromIoError(e) : e \in IoErrors}
    \cup {FromUrlParseError(e) : e \in UrlParseError}
    \cup {FromHyperError(e) : e \in HyperError}
    \cup {FromResolveAddrError(e) : e \in ResolveAddrErrors}
    \cup {FromUnixError(e) : e \in UnixError}
    \cup {FromImportMapError(e) : e \in ImportMapErrors}
    \cup {FromDiagnostic(e) : e \in Diagnostics}
    \cup {FromJSError(e) : e \in JSErrors}

\* ---- actions of the error specification ----
\* the value built from input c is e
Built(c, e) ==
  /\ cause' = c
  /\ derr0' = e
  /\ derr' = e
  /\ napplied' = 0
  /\ UNCHANGED mainvars

NewSimple ==
  /\ derr = NoError
  /\ \E e \in SimpleErrors :
       Built([domain |-> "simple", v |-> e], new(e.kind, e.msg))

ConvertIo ==
  /\ derr = NoError
  /\ \E e \in IoErrors :
       Built([domain |-> "io", v |-> e], FromIoError(e))

ConvertUrl ==
  /\ derr = NoError
  /\ \E e \in UrlParseError :
       Built([domain |-> "url", v |-> e], FromUrlParseError(e))

ConvertHyper ==
  /\ derr = NoError
  /\ \E e \in HyperError :
       Built([domain |-> "hyper", v |-> e], FromHyperError(e))

ConvertResolveAddr ==
  /\ derr = NoError
  /\ \E e \in ResolveAddrErrors :
       Built([domain |-> "resolve_addr", v |-> e], FromResolveAddrError(e))

ConvertUnix ==
  /\ derr = NoError
  /\ \E e \in UnixError :
       Built([domain |-> "unix", v |-> e], FromUnixError(e))

ConvertImportMap ==
  /\ derr = NoError
  /\ \E e \in ImportMapErrors :
       Built([domain |-> "import_map", v |-> e], FromImportMapError(e))

ConvertDiagnostic ==
  /\ derr = NoError
  /\ \E e \in Diagnostics :
       Built([domain |-> "diagnostic", v |-> e], FromDiagnostic(e))

ConvertJSError ==
  /\ derr = NoError
  /\ \E e \in JSErrors :
       Built([domain |-> "js", v |-> e], FromJSError(e))

ApplySourceMap ==
  /\ derr # NoError
  /\ napplied < MaxApply
  /\ \E g \in Getters : derr' = apply_source_map(derr, g)
  /\ napplied' = napplied + 1
  /\ UNCHANGED <<cause, derr0, mainvars>>

ErrNext ==
  \/ NewSimple
  \/ ConvertIo
  \/ ConvertUrl
  \/ ConvertHyper
  \/ ConvertResolveAddr
  \/ ConvertUnix
  \/ ConvertImportMap
  \/ ConvertDiagnostic
  \/ ConvertJSError
  \/ ApplySourceMap


ErrInitVars ==
  /\ cause = NoCause
  /\ derr0 = NoError
  /\ derr = NoError
  /\ napplied = 0

\* ================================================================
\*                        src/main.rs
\* ================================================================

Roles == {"compiler", "main"}

\* the bootstrap script of each isolate
Script(role) == IF role = "compiler" THEN "compiler_main.js" ELSE "deno_main.js"

NoFlags == [parsed |-> FALSE]

\* log::LevelFilter / log::Level, in their order
LevelOrder == <<"Off", "Error", "Warn", "Info", "Debug", "Trace">>
Rank(l) == CHOOSE i \in DOMAIN LevelOrder : LevelOrder[i] = l

\* Logger::enabled
enabled(level) == Rank(level) <= Rank(max_level)

\* Logger::log: println!("{} RS - {}", level, args) when enabled
log(level, rendered) ==
  IF enabled(level)
  THEN out' = Append(out, [level |-> level, prefix |-> "RS", msg |-> rendered])
  ELSE out' = out

\* std::process::exit(code)
exit(code) ==
  /\ status' = code
  /\ pc' = <<"end", "exited">>

\* the message of a panicking Result::unwrap()
UnwrapMsg == <<"called Result::unwrap() on an Err value">>

\* what a panic does: with the hook of main() installed, eprintln! of the
\* panic message and std::process::abort(); without it, the default of the
\* language (message, unwinding, exit status 101)
panic(msg) ==
  /\ panicked' = TRUE
  /\ errout' = Append(errout, [level |-> "panic", prefix |-> "", msg |-> msg])
  /\ IF hook
     THEN status' = "abort" /\ pc' = <<"end", "aborted">>
     ELSE exit("exit101")

\* faulty variant: the hook is not installed
SetPanicHook_Missing ==
  /\ pc = <<"startup", "set_hook">>
  /\ pc' = <<"startup", "set_logger">>
  /\ UNCHANGED <<args, flags, hook, logger, max_level, ctx, pending, executed,
                 looped, failed, err, out, errout, status, panicked, errvars>>

\* std::panic::set_hook(...)
SetPanicHook ==
  /\ pc = <<"startup", "set_hook">>
  /\ hook' = TRUE
  /\ pc' = <<"startup", "set_logger">>
  /\ UNCHANGED <<args, flags, logger, max_level, ctx, pending, executed, looped,
                 failed, err, out, errout, status, panicked, errvars>>

\* log::set_logger(&LOGGER).unwrap(): Err (and so a panic) when a logger is
\* already installed
SetLogger ==
  /\ pc = <<"startup", "set_logger">>
  /\ IF logger = 0
     THEN /\ logger' = logger + 1
          /\ pc' = <<"startup", "set_flags">>
          /\ UNCHANGED <<errout, status, panicked>>
     ELSE /\ panic(UnwrapMsg)
          /\ UNCHANGED logger
  /\ UNCHANGED <<args, flags, hook, max_level, ctx, pending, executed, looped,
                 failed, err, out, errvars>>

\* flags::set_flags(args).unwrap_or_else(|err| { eprintln!; exit(1) })
SetFlags ==
  /\ pc = <<"startup", "set_flags">>
  /\ IF args.valid
     THEN /\ flags' = [parsed |-> TRUE, help |-> args.help,
                       log_debug |-> args.log_debug]
          /\ pc' = <<"startup", "help">>
          /\ UNCHANGED <<errout, status>>
     ELSE /\ errout' = Append(errout, [level |-> "", prefix |-> "",
                                       msg |-> <<"unrecognized option">>])
          /\ exit("exit1")
          /\ UNCHANGED flags
  /\ UNCHANGED <<args, hook, logger, max_level, ctx, pending, executed, looped,
                 failed, err, out, panicked, errvars>>

\* if flags.help { println!(usage); exit(0) }
Help ==
  /\ pc = <<"startup", "help">>
  /\ IF flags.help
     THEN /\ out' = Append(out, [level |-> "", prefix |-> "",
                                 msg |-> <<"usage">>])
          /\ exit("exit0")
     ELSE /\ pc' = <<"startup", "set_max_level">>
          /\ UNCHANGED <<out, status>>
  /\ UNCHANGED <<args, flags, hook, logger, max_level, ctx, pending, executed,
                 looped, failed, err, errout, panicked, errvars>>

\* faulty variant: the two levels exchanged
SetMaxLevel_Inverted ==
  /\ pc = <<"startup", "set_max_level">>
  /\ max_level' = IF flags.log_debug THEN "Info" ELSE "Debug"
  /\ pc' = <<"startup", "code_provider">>
  /\ UNCHANGED <<args, flags, hook, logger, ctx, pending, executed, looped,
                 failed, err, out, errout, status, panicked, errvars>>

\* log::set_max_level(if flags.log_debug { Debug } else { Info })
SetMaxLevel ==
  /\ pc = <<"startup", "set_max_level">>
  /\ max_level' = IF flags.log_debug THEN "Debug" ELSE "Info"
  /\ pc' = <<"startup", "code_provider">>
  /\ UNCHANGED <<args, flags, hook, logger, ctx, pending, executed, looped,
                 failed, err, out, errout, status, panicked, errvars>>

\* CodeProvider::new(..).unwrap(): its failure is a panic (see Panic)
NewCodeProvider ==
  /\ pc = <<"startup", "code_provider">>
  /\ pc' = <<"compiler", "new">>
  /\ UNCHANGED <<args, flags, hook, logger, max_level, ctx, pending, executed,
                 looped, failed, err, out, errout, status, panicked, errvars>>

\* IsolateState::new, the snapshot, Isolate::new
NewIsolate(role) ==
  /\ pc = <<role, "new">>
  /\ ctx' = [ctx EXCEPT ![role] = "Constructed"]
  /\ pc' = <<role, "init">>
  /\ UNCHANGED <<args, flags, hook, logger, max_level, pending, executed,
                 looped, failed, err, out, errout, status, panicked, errvars>>

\* tokio_util::init(|| ...): the closure starts to run
TokioInit(role) ==
  /\ pc = <<role, "init">>
  /\ ctx' = [ctx EXCEPT ![role] = "Running"]
  /\ pc' = <<role, "execute">>
  /\ UNCHANGED <<args, flags, hook, logger, max_level, pending, executed,
                 looped, failed, err, out, errout, status, panicked, errvars>>

\* isolate.execute(script, ..) returned Ok: the script may have scheduled work
ExecuteOk(role) ==
  /\ pc = <<role, "execute">>
  /\ executed' = Append(executed, Script(role))
  /\ \E n \in 0 .. MaxWork : pending' = n
  /\ pc' = <<role, "event_loop">>
  /\ UNCHANGED <<args, flags, hook, logger, max_level, ctx, looped, failed,
                 err, out, errout, status, panicked, errvars>>

\* faulty variant: the error is logged and the closure goes on to the event loop
ExecuteErr_Continue(role) ==
  /\ pc = <<role, "execute">>
  /\ executed' = Append(executed, Script(role))
  /\ \E e \in ConstructibleErrors :
       /\ err' = e
       /\ log("Error", Display(e))
  /\ failed' = role
  /\ pc' = <<role, "event_loop">>
  /\ UNCHANGED <<args, flags, hook, logger, max_level, ctx, pending, looped,
                 errout, status, panicked, errvars>>

\* isolate.execute(script, ..) returned Err(e):
\* unwrap_or_else(|err| { error!("{}", err); std::process::exit(1); })
ExecuteErr(role) ==
  /\ pc = <<role, "execute">>
  /\ executed' = Append(executed, Script(role))
  /\ \E e \in ConstructibleErrors :
       /\ err' = e
       /\ log("Error", Display(e))
  /\ failed' = role
  /\ ctx' = [ctx EXCEPT ![role] = "Failed"]
  /\ exit("exit1")
  /\ UNCHANGED <<args, flags, hook, logger, max_level, pending, looped,
                 errout, panicked, errvars>>

\* isolate.event_loop() is entered
EventLoop(role) ==
  /\ pc = <<role, "event_loop">>
  /\ looped' = Append(looped, role)
  /\ pc' = <<role, "looping">>
  /\ UNCHANGED <<args, flags, hook, logger, max_level, ctx, pending, executed,
                 failed, err, out, errout, status, panicked, errvars>>

\* one turn of the event loop: one scheduled item completes
EventLoopTurn(role) ==
  /\ pc = <<role, "looping">>
  /\ pending > 0
  /\ pending' = pending - 1
  /\ UNCHANGED <<pc, args, flags, hook, logger, max_level, ctx, executed,
                 looped, failed, err, out, errout, status, panicked, errvars>>

\* faulty variant: event_loop() returns while work is still scheduled
EventLoopDone_Early(role) ==
  /\ pc = <<role, "looping">>
  /\ ctx' = [ctx EXCEPT ![role] = "Completed"]
  /\ pc' = IF role = "compiler" THEN <<"main", "new">> ELSE <<"end", "return">>
  /\ UNCHANGED <<args, flags, hook, logger, max_level, pending, executed,
                 looped, failed, err, out, errout, status, panicked, errvars>>

\* event_loop() returns when nothing is scheduled any more; main() goes on to
\* the next isolate, or to its end
EventLoopDone(role) ==
  /\ pc = <<role, "looping">>
  /\ pending = 0
  /\ ctx' = [ctx EXCEPT ![role] = "Completed"]
  /\ pc' = IF role = "compiler" THEN <<"main", "new">> ELSE <<"end", "return">>
  /\ UNCHANGED <<args, flags, hook, logger, max_level, pending, executed,
                 looped, failed, err, out, errout, status, panicked, errvars>>

\* faulty variant: the end of main() exits with status 1
Return_Status1 ==
  /\ pc = <<"end", "return">>
  /\ exit("exit1")
  /\ UNCHANGED <<args, flags, hook, logger, max_level, ctx, pending, executed,
                 looped, failed, err, out, errout, panicked, errvars>>

\* the end of main(): the process exits with status 0
Return ==
  /\ pc = <<"end", "return">>
  /\ exit("exit0")
  /\ UNCHANGED <<args, flags, hook, logger, max_level, ctx, pending, executed,
                 looped, failed, err, out, errout, panicked, errvars>>

\* the panic messages the statement at position p can raise: env::args() on
\* an argument that is not valid unicode, CodeProvider::new(..).unwrap() on an
\* Err, and, inside an isolate, err_check on an Err
PanicMessages(p) ==
  IF p = <<"startup", "set_flags">> THEN {<<"argument is not valid unicode">>}
  ELSE IF p = <<"startup", "code_provider">> THEN {UnwrapMsg}
  ELSE IF p[1] \in Roles
  THEN {err_check(r).msg : r \in {e \in SimpleErrors : err_check(e).panics}}
  ELSE {}

\* the statement at pc panics
Panic ==
  /\ status = "running"
  /\ \E msg \in PanicMessages(pc) : panic(msg)
  /\ UNCHANGED <<args, flags, hook, logger, max_level, ctx, pending, executed,
                 looped, failed, err, out, errvars>>

MainInitVars ==
  /\ pc = <<"startup", "set_hook">>
  /\ args \in [valid : BOOLEAN, help : BOOLEAN, log_debug : BOOLEAN]
  /\ flags = NoFlags
  /\ hook = FALSE
  /\ logger = 0
  /\ max_level = "Off"
  /\ ctx = [r \in Roles |-> "Uninitialized"]
  /\ pending = 0
  /\ executed = <<>>
  /\ looped = <<>>
  /\ failed = "none"
  /\ err = NoError
  /\ out = <<>>
  /\ errout = <<>>
  /\ status = "running"
  /\ panicked = FALSE

Init == MainInitVars /\ ErrInitVars

Next ==
  \/ SetPanicHook
  \/ SetLogger
  \/ SetFlags
  \/ Help
  \/ SetMaxLevel
  \/ NewCodeProvider
  \/ \E role \in Roles : NewIsolate(role)
  \/ \E role \in Roles : TokioInit(role)
  \/ \E role \in Roles : ExecuteOk(role)
  \/ \E role \in Roles : ExecuteErr(role)
  \/ \E role \in Roles : EventLoop(role)
  \/ \E role \in Roles : EventLoopTurn(role)
  \/ \E role \in Roles : EventLoopDone(role)
  \/ Return
  \/ Panic

\* the startup routine
Spec == Init /\ [][Next]_vars

\* main() is a sequential program: it takes its next step whenever it has one
FairSpec == Spec /\ WF_vars(Next)

\* one DenoError: built by new() or a From conversion, then source-mapped
ErrInit == Init /\ args = [valid |-> TRUE, help |-> FALSE, log_debug |-> FALSE]
ErrSpec == ErrInit /\ [][ErrNext]_vars


\* ================================================================
\*                          properties
\* ================================================================

Range(q) == {q[i] : i \in DOMAIN q}

\* C1: the two isolates run strictly one after the other. The main isolate is
\* not constructed, and deno_main.js not executed, before compiler_main.js was
\* executed and the compiler's event loop has drained; an isolate's event loop
\* is entered only after its bootstrap script has been executed with success;
\* the two isolates are never Running together.
C1_Sequential ==
  /\ ctx["main"] # "Uninitialized" =>
       /\ ctx["compiler"] = "Completed"
       /\ Len(executed) >= 1 /\ executed[1] = "compiler_main.js"
       /\ Len(looped) >= 1 /\ looped[1] = "compiler"
  /\ pc = <<"main", "new">> => pending = 0
  /\ \A i \in DOMAIN executed :
       executed[i] = "deno_main.js" => i > 1 /\ ctx["compiler"] = "Completed"
  /\ \A role \in Roles :
       /\ role \in Range(looped) => Script(role) \in Range(executed) /\ failed # role
       /\ pc \in {<<role, "new">>, <<role, "init">>, <<role, "execute">>}
            => role \notin Range(looped)
  /\ ~(ctx["compiler"] = "Running" /\ ctx["main"] = "Running")

C1_Witness ==
  /\ ctx["main"] = "Running"
  /\ pc = <<"main", "looping">>
  /\ pending > 0

\* C2: when execute() returns an error the process has exited with status 1 in
\* that very step: the failed isolate's event loop is never entered, its
\* script was executed once only, and after a failure of the compiler isolate
\* the main isolate is never constructed nor its script executed.
C2_FailFast ==
  failed # "none" =>
    /\ status = "exit1"
    /\ pc = <<"end", "exited">>
    /\ ctx[failed] = "Failed"
    /\ failed \notin Range(looped)
    /\ Cardinality({i \in DOMAIN executed : executed[i] = Script(failed)}) = 1
    /\ executed[Len(executed)] = Script(failed)
    /\ failed = "compiler" =>
         /\ ctx["main"] = "Uninitialized"
         /\ "deno_main.js" \notin Range(executed)
         /\ looped = <<>>

C2_Witness ==
  /\ failed = "compiler"
  /\ status = "exit1"
  /\ err = new("InvalidInput", "bad config")

\* the terminal states of the startup routine
FatalBootstrapExit == status = "exit1" /\ failed # "none"
NormalCompletion ==
  /\ status = "exit0"
  /\ failed = "none"
  /\ \A role \in Roles : ctx[role] = "Completed"
  /\ executed = <<"compiler_main.js", "deno_main.js">>
  /\ looped = <<"compiler", "main">>
HelpExit ==
  /\ status = "exit0"
  /\ flags # NoFlags /\ flags.help
  /\ \A role \in Roles : ctx[role] = "Uninitialized"
FlagsErrorExit ==
  /\ status = "exit1"
  /\ flags = NoFlags
  /\ failed = "none"
  /\ \A role \in Roles : ctx[role] = "Uninitialized"
PanicAbort == status = "abort" /\ panicked

\* C3 (as stated): the terminal states of a run are the exit with status 1 of
\* a fatal failure and the exit with status 0 of the normal completion of both
\* isolates. Read in the claim's favour: any exit with status 1 counts as the
\* fatal failure, and runs that panic are left aside.
C3_Original ==
  (status # "running" /\ ~panicked) => (status = "exit1" \/ NormalCompletion)

\* C3 (amended): a failed bootstrap script means status 1; status 0 means the
\* normal completion of both isolates, compiler first, or the --help exit; and
\* every run ends in one of: fatal bootstrap exit, normal completion, the
\* --help exit, the flag-parsing error exit, or the abort of a panic.
C3_ExitStatus ==
  /\ [](failed # "none" => status = "exit1")
  /\ []((status = "exit0") => (NormalCompletion \/ HelpExit))
  /\ []((status = "exit1") => (FatalBootstrapExit \/ FlagsErrorExit))
  /\ []((\A role \in Roles : ctx[role] = "Completed")
          => (pc = <<"end", "return">> \/ NormalCompletion \/ PanicAbort))
  /\ <>(FatalBootstrapExit \/ NormalCompletion \/ HelpExit \/ FlagsErrorExit
          \/ PanicAbort)

C3_Witness == NormalCompletion

\* C4 (as stated): after a failed bootstrap script the rendered text of the
\* source-mapped error is on the diagnostic (error) stream.
C4_Original ==
  failed # "none" =>
    \E i \in DOMAIN errout : \E g \in Getters :
      errout[i].msg = Display(apply_source_map(err, g))

\* C5: kind() of every constructible DenoError is an ErrorKind; the
\* unreachable!() arm is never taken, before or after apply_source_map.
C5_KindTotal ==
  derr0 # NoError =>
    /\ kind(derr0) \in ErrorKind
    /\ kind(derr0) # "unreachable"
    /\ kind(derr) \in ErrorKind

C5_Witness ==
  /\ cause.domain = "io"
  /\ cause.v.kind = "UnexpectedEof"
  /\ kind(derr0) = "UnexpectedEof"

\* C6: a transport cause classifies by its first true predicate in the order
\* parse, user, canceled, closed, and as HttpOther when none is true.
C6_HyperPrecedence ==
  cause.domain = "hyper" =>
    LET h == cause.v
        k == kind(derr0)
    IN /\ h.is_parse => k = "HttpParse"
       /\ (~h.is_parse /\ h.is_user) => k = "HttpUser"
       /\ (~h.is_parse /\ ~h.is_user /\ h.is_canceled) => k = "HttpCanceled"
       /\ (~h.is_parse /\ ~h.is_user /\ ~h.is_canceled /\ h.is_closed)
            => k = "HttpClosed"
       /\ (~h.is_parse /\ ~h.is_user /\ ~h.is_canceled /\ ~h.is_closed)
            => k = "HttpOther"

C6_Witness ==
  /\ cause.domain = "hyper"
  /\ cause.v.is_parse /\ cause.v.is_canceled /\ ~cause.v.is_user
  /\ kind(derr0) = "HttpParse"

\* C7: a platform error converts to a Simple error: EPERM to PermissionDenied,
\* EINVAL to InvalidInput, ENOENT to NotFound, any other errno to UnixError,
\* each rendering as the errno's description; a failure that is no errno to
\* Other, rendering as the failure's own message.
C7_UnixConversion ==
  cause.domain = "unix" =>
    LET u == cause.v IN
    /\ derr0.tag = "Simple"
    /\ kind(derr0) = derr0.kind
    /\ u.variant = "Sys" =>
         /\ Display(derr0).text = <<ErrnoDesc(u.errno)>>
         /\ u.errno = "EPERM" => kind(derr0) = "PermissionDenied"
         /\ u.errno = "EINVAL" => kind(derr0) = "InvalidInput"
         /\ u.errno = "ENOENT" => kind(derr0) = "NotFound"
         /\ u.errno \notin {"EPERM", "EINVAL", "ENOENT"}
              => kind(derr0) = "UnixError"
    /\ u.variant # "Sys" =>
         /\ kind(derr0) = "Other"
         /\ Display(derr0).text = <<UnixErrorDisplay(u)>>

C7_Witness ==
  /\ cause.domain = "unix"
  /\ cause.v.variant = "Sys"
  /\ cause.v.errno = "EPERM"
  /\ kind(derr0) = "PermissionDenied"

\* C8: apply_source_map, called any number of times with any getters, leaves
\* an error that is not a script exception as it was: same value, same kind,
\* same rendered text.
C8_NonScriptUnchanged ==
  (derr0 # NoError /\ derr0.tag # "JSError") =>
    /\ derr = derr0
    /\ kind(derr) = kind(derr0)
    /\ Display(derr) = Display(derr0)

C8_Witness ==
  /\ derr0.tag = "IoErr"
  /\ napplied = MaxApply

\* the level the flags ask for
RequestedLevel == IF args.log_debug THEN "Debug" ELSE "Info"

\* C9 (as stated): from the moment the sink is installed the threshold is
\* Debug if the debug flag was given and Info otherwise.
C9_Original == logger > 0 => max_level = RequestedLevel

\* C9 (amended): the sink is installed once, before any isolate exists; the
\* threshold is Off until set_max_level has run, which is before any isolate
\* exists, and from then on it is the requested level and never changes.
C9_LoggerLevel ==
  /\ [](logger <= 1)
  /\ [](logger = 0 => max_level = "Off")
  /\ [](max_level \in {"Off", RequestedLevel})
  /\ []((\E role \in Roles : ctx[role] # "Uninitialized")
          => (logger = 1 /\ max_level = RequestedLevel))
  /\ [][max_level # "Off" => max_level' = max_level]_vars

C9_Witness ==
  /\ logger = 1
  /\ args.log_debug
  /\ max_level = "Debug"
  /\ ctx["main"] = "Running"

\* C10: the panic hook is installed before anything else runs; a panic leads
\* in one step to the aborted state, leaving isolates, scripts, event loops
\* and stdout as they were, never by the exit(1) path; nothing happens after.
C10_PanicAborts ==
  /\ [](pc # <<"startup", "set_hook">> => hook)
  /\ [](panicked => (status = "abort" /\ pc = <<"end", "aborted">>))
  /\ [][ /\ ~panicked
         /\ panicked' =>
              /\ hook
              /\ status' = "abort"
              /\ UNCHANGED <<ctx, executed, looped, failed, err, out, logger,
                             max_level>> ]_vars

C10_Witness ==
  /\ panicked
  /\ status = "abort"
  /\ ctx["compiler"] = "Completed"
  /\ ctx["main"] = "Running"

====
